---- MODULE Spec2Model ----
(***************************************************************************)
(* Model of helix-view/src/persistence.rs: the persistence configuration   *)
(* router (commands, search, files, clipboard, splits) over the            *)
(* file-backed history store of helix_loader::persistence.                 *)
(*                                                                         *)
(* Strings are sequences of bytes, files are byte sequences, records are   *)
(* stored in the bincode form the integration test shows (a u64            *)
(* little-endian length prefix, then the payload).                         *)
(***************************************************************************)
EXTENDS Integers, Sequences, FiniteSets, TLC

(***************************************************************************)
(* Bounds of the exploration.                                              *)
(***************************************************************************)
MaxCap == 3
MaxSearch == 4
MaxCommand == 2
MaxFile == 3
MaxSplit == 3
MaxMixed == 1
MaxClip == 2
MaxWrite == 2

(***************************************************************************)
(* Sequence helpers.                                                       *)
(***************************************************************************)
Reverse(s) == [i \in 1..Len(s) |-> s[Len(s) + 1 - i]]

RECURSIVE Flatten(_)
Flatten(ss) == IF ss = <<>> THEN <<>> ELSE Head(ss) \o Flatten(Tail(ss))

Range(s) == {s[i] : i \in 1..Len(s)}

Drop(s, n) == SubSeq(s, n + 1, Len(s))

(***************************************************************************)
(* Record codec (bincode, fixed-width little-endian integers).             *)
(***************************************************************************)
U32Width == 4
U64Width == 8

RECURSIVE LE(_, _)
LE(n, w) == IF w = 0 THEN <<>> ELSE <<n % 256>> \o LE(n \div 256, w - 1)

RECURSIVE UnLE(_)
UnLE(bytes) == IF bytes = <<>> THEN 0 ELSE Head(bytes) + 256 * UnLE(Tail(bytes))

Fail == [ok |-> FALSE, value |-> <<>>, rest |-> <<>>]
Ok(v, rest) == [ok |-> TRUE, value |-> v, rest |-> rest]

dec_int(bytes, w) ==
    IF Len(bytes) < w THEN Fail
    ELSE Ok(UnLE(SubSeq(bytes, 1, w)), Drop(bytes, w))

\* enc_String with a 32-bit length prefix.
enc_String_u32(s) == LE(Len(s), U32Width) \o s

enc_String(s) == LE(Len(s), U64Width) \o s

take_String(n) ==
    IF ~n.ok THEN Fail
    ELSE IF Len(n.rest) < n.value THEN Fail
    ELSE Ok(SubSeq(n.rest, 1, n.value), Drop(n.rest, n.value))

dec_String(bytes) == take_String(dec_int(bytes, U64Width))

\* One field of a struct, by its kind; the fields of a struct in order.
dec_field(kind, bytes) ==
    CASE kind = "u8" -> dec_int(bytes, 1)
      [] kind = "u32" -> dec_int(bytes, U32Width)
      [] kind = "u64" -> dec_int(bytes, U64Width)
      [] kind = "String" -> dec_String(bytes)

cons(v, r) == IF ~r.ok THEN Fail ELSE Ok(<<v>> \o r.value, r.rest)

RECURSIVE dec_fields(_, _)
RECURSIVE dec_more_fields(_, _)
dec_fields(kinds, bytes) ==
    IF kinds = <<>> THEN Ok(<<>>, bytes)
    ELSE dec_more_fields(Tail(kinds), dec_field(Head(kinds), bytes))
dec_more_fields(kinds, f) ==
    IF ~f.ok THEN Fail ELSE cons(f.value, dec_fields(kinds, f.rest))

\* FileHistoryEntry { path, view_position, selection }: the path is stored as
\* a string; view_position and selection are types of other crates and are
\* carried as one unsigned integer each.
FileHistoryEntry(path, view_position, selection) ==
    [path |-> path, view_position |-> view_position, selection |-> selection]

enc_FileHistoryEntry(e) ==
    enc_String(e.path) \o LE(e.view_position, U64Width) \o LE(e.selection, U64Width)

FileHistoryEntry_of(r) ==
    IF ~r.ok THEN Fail
    ELSE Ok(FileHistoryEntry(r.value[1], r.value[2], r.value[3]), r.rest)

dec_FileHistoryEntry(bytes) ==
    FileHistoryEntry_of(dec_fields(<<"String", "u64", "u64">>, bytes))

\* Layout: enum, stored as its u32 variant index.
Layouts == <<"Horizontal", "Vertical">>
LayoutIndex(l) == CHOOSE i \in 1..Len(Layouts) : Layouts[i] = l

\* SplitEntryTree: Leaf(Option<SplitEntryLeaf>) | Node(SplitEntryNode).
\* The Option of a leaf is a sequence of zero or one SplitEntryLeaf.
SplitEntryLeaf(path, view_position, selection, focus) ==
    [path |-> path, view_position |-> view_position, selection |-> selection,
     focus |-> focus]
Leaf(opt) == [tag |-> "Leaf", leaf |-> opt]
Node(layout, children) == [tag |-> "Node", layout |-> layout, children |-> children]
SplitEntry(name, tree) == [name |-> name, tree |-> tree]

enc_SplitEntryLeaf(l) ==
    enc_String(l.path) \o LE(l.view_position, U64Width) \o LE(l.selection, U64Width)
        \o <<IF l.focus THEN 1 ELSE 0>>

RECURSIVE enc_SplitEntryTree(_)
enc_SplitEntryTree(t) ==
    IF t.tag = "Leaf"
    THEN LE(0, U32Width) \o
         (IF t.leaf = <<>> THEN <<0>> ELSE <<1>> \o enc_SplitEntryLeaf(t.leaf[1]))
    ELSE LE(1, U32Width) \o LE(LayoutIndex(t.layout) - 1, U32Width)
         \o LE(Len(t.children), U64Width)
         \o Flatten([i \in 1..Len(t.children) |-> enc_SplitEntryTree(t.children[i])])

enc_SplitEntry(e) == enc_String(e.name) \o enc_SplitEntryTree(e.tree)

SplitEntryLeaf_of(r) ==
    IF ~r.ok THEN Fail
    ELSE IF r.value[4] \notin {0, 1} THEN Fail
    ELSE Ok(SplitEntryLeaf(r.value[1], r.value[2], r.value[3], r.value[4] = 1), r.rest)

dec_SplitEntryLeaf(bytes) ==
    SplitEntryLeaf_of(dec_fields(<<"String", "u64", "u64", "u8">>, bytes))

Some_of(l) == IF ~l.ok THEN Fail ELSE Ok(<<l.value>>, l.rest)

dec_Option_SplitEntryLeaf(bytes) ==
    IF bytes = <<>> THEN Fail
    ELSE IF Head(bytes) = 0 THEN Ok(<<>>, Tail(bytes))
    ELSE IF Head(bytes) = 1 THEN Some_of(dec_SplitEntryLeaf(Tail(bytes)))
    ELSE Fail

\* n trees in a row: each is its variant index, then the leaf option, or
\* the node's layout and its children (the trees that follow).
RECURSIVE dec_trees(_, _)
RECURSIVE dec_variant(_, _)
RECURSIVE dec_after_leaf(_, _)
RECURSIVE dec_after_node(_, _)
RECURSIVE dec_after_children(_, _, _)
dec_trees(bytes, n) ==
    IF n = 0 THEN Ok(<<>>, bytes) ELSE dec_variant(dec_int(bytes, U32Width), n)
dec_variant(tag, n) ==
    IF ~tag.ok THEN Fail
    ELSE IF tag.value = 0 THEN dec_after_leaf(dec_Option_SplitEntryLeaf(tag.rest), n)
    ELSE IF tag.value = 1 THEN dec_after_node(dec_fields(<<"u32", "u64">>, tag.rest), n)
    ELSE Fail
dec_after_leaf(o, n) ==
    IF ~o.ok THEN Fail ELSE cons(Leaf(o.value), dec_trees(o.rest, n - 1))
dec_after_node(h, n) ==
    IF ~h.ok THEN Fail
    ELSE IF h.value[1] >= Len(Layouts) THEN Fail
    ELSE dec_after_children(Layouts[h.value[1] + 1], dec_trees(h.rest, h.value[2]), n)
dec_after_children(layout, cs, n) ==
    IF ~cs.ok THEN Fail
    ELSE cons(Node(layout, cs.value), dec_trees(cs.rest, n - 1))

first_of(t) == IF ~t.ok THEN Fail ELSE Ok(t.value[1], t.rest)

dec_SplitEntryTree(bytes) == first_of(dec_trees(bytes, 1))

SplitEntry_of(name, t) == IF ~t.ok THEN Fail ELSE Ok(SplitEntry(name, t.value), t.rest)

dec_SplitEntry_tree(n) ==
    IF ~n.ok THEN Fail ELSE SplitEntry_of(n.value, dec_SplitEntryTree(n.rest))

dec_SplitEntry(bytes) == dec_SplitEntry_tree(dec_String(bytes))

\* The record types of the five files: T is "String", "FileHistoryEntry" or
\* "SplitEntry".
encode(T, r) ==
    CASE T = "String" -> enc_String(r)
      [] T = "FileHistoryEntry" -> enc_FileHistoryEntry(r)
      [] T = "SplitEntry" -> enc_SplitEntry(r)

decode(T, bytes) ==
    CASE T = "String" -> dec_String(bytes)
      [] T = "FileHistoryEntry" -> dec_FileHistoryEntry(bytes)
      [] T = "SplitEntry" -> dec_SplitEntry(bytes)

\* Decode one record's worth of bytes until the buffer is exhausted.
seq_cons(v, r) == [ok |-> r.ok, entries |-> IF r.ok THEN <<v>> \o r.entries ELSE <<>>]

RECURSIVE decode_sequence(_, _)
RECURSIVE decode_more(_, _)
decode_sequence(T, bytes) ==
    IF bytes = <<>> THEN [ok |-> TRUE, entries |-> <<>>]
    ELSE decode_more(T, decode(T, bytes))
decode_more(T, d) ==
    IF ~d.ok THEN [ok |-> FALSE, entries |-> <<>>]
    ELSE seq_cons(d.value, decode_sequence(T, d.rest))

encode_sequence(T, entries) ==
    Flatten([i \in 1..Len(entries) |-> encode(T, entries[i])])

(***************************************************************************)
(* Configuration: PersistenceConfig, OptionToml, PersistenceScope.         *)
(* OptionToml::None is the empty sequence, OptionToml::Some(opt) is <<opt>>.*)
(***************************************************************************)
PersistenceType == {"Command", "Search", "File", "Clipboard", "Splits"}

None == <<>>
Some(opt) == <<opt>>

AllInOne == [kind |-> "AllInOne"]
PerWorkspace == [kind |-> "PerWorkspace"]
Dir(dir) == [kind |-> "Dir", dir |-> dir]

PersistenceConfigOption(en, max, sc) == [enabled |-> en, max_entries |-> max, scope |-> sc]

\* Paths are sequences of characters.
Sep == "/"
join(a, b) == a \o <<Sep>> \o b
strip_prefix(p, c) == Tail(p)
replace(p, from, to) == [i \in 1..Len(p) |-> IF p[i] = from THEN to ELSE p[i]]

\* External collaborators: helix_loader::state_dir() and find_workspace().
state_dir == <<"/", "s">>
find_workspace == <<"/", "w", "/", "p">>
TmpDir == <<"/", "t">>

\* get_option with the search category given the option of the commands.
get_option_search_as_commands(self, file) ==
    CASE file = "Command" -> self.commands
      [] file = "Search" -> self.commands
      [] file = "Clipboard" -> self.clipboard
      [] file = "File" -> self.old_files
      [] file = "Splits" -> self.splits

get_option(self, file) ==
    CASE file = "Command" -> self.commands
      [] file = "Search" -> self.search
      [] file = "Clipboard" -> self.clipboard
      [] file = "File" -> self.old_files
      [] file = "Splits" -> self.splits

enabled(self, file) ==
    IF get_option(self, file) = None THEN self.all.enabled
    ELSE get_option(self, file)[1].enabled

max_entries(self, file) ==
    IF get_option(self, file) = None THEN self.all.max_entries
    ELSE get_option(self, file)[1].max_entries

scope(self, file) ==
    IF get_option(self, file) = None THEN self.all.scope
    ELSE get_option(self, file)[1].scope

persistence_dir(sc) ==
    CASE sc.kind = "AllInOne" -> state_dir
      [] sc.kind = "PerWorkspace" ->
            join(state_dir, replace(strip_prefix(find_workspace, Sep), Sep, "%"))
      [] sc.kind = "Dir" -> sc.dir

\* The filename table with the search category given the command file.
filename_search_as_command(file) ==
    CASE file = "Command" -> "command_history"
      [] file = "Search" -> "command_history"
      [] file = "File" -> "file_history"
      [] file = "Clipboard" -> "clipboard"
      [] file = "Splits" -> "splits"

filename(file) ==
    CASE file = "Command" -> "command_history"
      [] file = "Search" -> "search_history"
      [] file = "File" -> "file_history"
      [] file = "Clipboard" -> "clipboard"
      [] file = "Splits" -> "splits"

\* The path default_file_path returns; its ensure_parent_dir call is
\* ensure_parent_dir below, applied by every operation that resolves a path.
default_file_path(self, file) ==
    [dir |-> persistence_dir(scope(self, file)), name |-> filename(file)]

(***************************************************************************)
(* The history store, helix_loader::persistence, on a file system f that   *)
(* maps each path to a file: absent, or present with its bytes.            *)
(***************************************************************************)
NoFile == [exists |-> FALSE, bytes |-> <<>>]
File(bytes) == [exists |-> TRUE, bytes |-> bytes]

ensure_parent_dir(ds, path) == ds \cup {path.dir}

\* Append mode, created when missing: the encoded record goes to the end.
push_history(f, filepath, T, entry) ==
    [f EXCEPT ![filepath] = File(@.bytes \o encode(T, entry))]

\* A missing file reads as the empty sequence; an existing one is decoded
\* in file order.
read_history(f, filepath, T) ==
    IF ~f[filepath].exists THEN <<>>
    ELSE decode_sequence(T, f[filepath].bytes).entries

\* Full rewrite of the file with exactly the given entries.
write_history(f, filepath, T, entries) ==
    [f EXCEPT ![filepath] = File(encode_sequence(T, entries))]

\* Keep the last limit entries when there are more; else leave the file.
trim_to(f, filepath, T, history, limit) ==
    IF Len(history) > limit
    THEN write_history(f, filepath, T, Drop(history, Len(history) - limit))
    ELSE f

trim_history(f, filepath, T, limit) ==
    trim_to(f, filepath, T, read_history(f, filepath, T), limit)

(***************************************************************************)
(* State.                                                                  *)
(*   config    the PersistenceConfig of the session                        *)
(*   workload  which records the session pushes, and how many per category *)
(*   procs     the editor processes that share the scope directory beside  *)
(*             the session, each with the store call it is in the middle   *)
(*             of (none in a single-process session)                       *)
(*   dirs      the directories that exist                                  *)
(*   fs        the files, by path                                          *)
(*   hist      history of the session: the records pushed per category,    *)
(*             whether a trim of the category ran, the lists written to    *)
(*             the clipboard file                                          *)
(*   last      the last operation, its arguments and what it returned      *)
(***************************************************************************)
VARIABLES config, workload, procs, dirs, fs, hist, last

vars == <<config, workload, procs, dirs, fs, hist, last>>

\* Inputs: strings are byte sequences ("a", "1", "2", "3"; names "A", "B", "C").
s_a == <<97>>
s_1 == <<49>>
s_2 == <<50>>
s_3 == <<51>>
Lines == {s_a, s_1, s_2, s_3}
Registers == {":", "/", "\""}

p_f == <<47, 102>>
p_g == <<47, 103>>
FileEntries == {FileHistoryEntry(p_f, 0, 0), FileHistoryEntry(p_g, 1, 258)}

n_A == <<65>>
n_B == <<66>>
n_C == <<67>>
t_empty == Leaf(None)
t_split == Node("Vertical", <<Leaf(Some(SplitEntryLeaf(p_f, 1, 0, TRUE))), Leaf(None)>>)
SplitEntries == {SplitEntry(n_A, t_empty), SplitEntry(n_A, t_split),
                 SplitEntry(n_B, t_empty), SplitEntry(n_C, t_split)}

SeqsUpTo(S, n) == UNION {[1..k -> S] : k \in 0..n}

\* The directories a configuration can resolve to, and the paths in them.
Dirs == {state_dir, persistence_dir(PerWorkspace), TmpDir}
Paths == {[dir |-> d, name |-> filename(file)] : d \in Dirs, file \in PersistenceType}

\* Configurations: the global default with cap m, and either no override or
\* an override (cap MaxCap - m) of search, files and splits. The scope is the
\* test's directory, or the state directory with a per-workspace override.
Config(m, ov, sc, osc) ==
    LET o == IF ov THEN Some(PersistenceConfigOption(TRUE, MaxCap - m, osc)) ELSE None IN
    [all |-> PersistenceConfigOption(TRUE, m, sc),
     commands |-> None, search |-> o, clipboard |-> None, old_files |-> o, splits |-> o]

Configs == {Config(m, FALSE, Dir(TmpDir), Dir(TmpDir)) : m \in 0..MaxCap}
               \cup {Config(0, TRUE, Dir(TmpDir), Dir(TmpDir))}
ScopedConfigs == {Config(1, TRUE, AllInOne, PerWorkspace)}
MixedConfigs == {Config(0, TRUE, Dir(TmpDir), Dir(TmpDir))}
ConfigsOf(name) ==
    CASE name = "mixed" -> MixedConfigs
      [] name \in {"command", "file"} -> Configs \cup ScopedConfigs
      [] OTHER -> Configs

\* Workloads: the categories a session uses, the records it pushes and how
\* many per category. One category pushed up to its bound with the full
\* inputs, or every category pushed up to MaxMixed with one input each.
Only(file, n) == [f \in PersistenceType |-> IF f = file THEN n ELSE 0]
Workload(name, uses, max, registers, lines, files, splits, clips) ==
    [name |-> name, uses |-> uses, max |-> max, registers |-> registers,
     lines |-> lines, files |-> files, splits |-> splits, clips |-> clips]
Workloads ==
    {Workload("search", {"Search"}, Only("Search", MaxSearch), {"/"}, Lines, {}, {}, {}),
     Workload("command", {"Command"}, Only("Command", MaxCommand), {":", "\""},
              {s_a, s_1}, {}, {}, {}),
     Workload("file", {"File"}, Only("File", MaxFile), {}, {}, FileEntries, {}, {}),
     Workload("splits", {"Splits"}, Only("Splits", MaxSplit), {}, {}, {}, SplitEntries, {}),
     Workload("clipboard", {"Clipboard"}, Only("Clipboard", MaxWrite), {}, {}, {}, {},
              SeqsUpTo({s_a, s_1}, MaxClip)),
     Workload("mixed", PersistenceType, [f \in PersistenceType |-> MaxMixed], Registers,
              {s_a}, {FileHistoryEntry(p_f, 0, 0)}, {SplitEntry(n_A, t_empty)},
              {<<s_1>>})}

Init ==
    /\ workload \in Workloads
    /\ config \in ConfigsOf(workload.name)
    /\ procs = <<>>
    /\ dirs = {}
    /\ fs = [p \in Paths |-> NoFile]
    /\ hist = [pushed |-> [f \in PersistenceType |-> <<>>],
               trimmed |-> [f \in PersistenceType |-> FALSE],
               written |-> <<>>]
    /\ last = [op |-> "init", arg |-> <<>>, ret |-> <<>>]

Pushed(file, entry) == [hist EXCEPT !.pushed[file] = Append(@, entry)]
Trimmed(file) == [hist EXCEPT !.trimmed[file] = TRUE]

(***************************************************************************)
(* Operations of PersistenceConfig.                                        *)
(***************************************************************************)
push_file_history(entry) ==
    LET path == default_file_path(config, "File") IN
    /\ dirs' = ensure_parent_dir(dirs, path)
    /\ fs' = push_history(fs, path, "FileHistoryEntry", entry)
    /\ hist' = Pushed("File", entry)
    /\ last' = [op |-> "push_file_history", arg |-> <<entry>>, ret |-> <<>>]
    /\ UNCHANGED <<config, workload, procs>>

read_file_history ==
    LET path == default_file_path(config, "File") IN
    /\ dirs' = ensure_parent_dir(dirs, path)
    /\ last' = [op |-> "read_file_history", arg |-> <<>>,
                ret |-> read_history(fs, path, "FileHistoryEntry")]
    /\ UNCHANGED <<config, workload, procs, fs, hist>>

\* trim_file_history with the global default cap, whatever the override.
trim_file_history_default_cap ==
    LET path == default_file_path(config, "File") IN
    /\ dirs' = ensure_parent_dir(dirs, path)
    /\ fs' = trim_history(fs, path, "FileHistoryEntry", config.all.max_entries)
    /\ hist' = Trimmed("File")
    /\ last' = [op |-> "trim_file_history", arg |-> <<>>, ret |-> <<>>]
    /\ UNCHANGED <<config, workload, procs>>

trim_file_history ==
    LET path == default_file_path(config, "File") IN
    /\ dirs' = ensure_parent_dir(dirs, path)
    /\ fs' = trim_history(fs, path, "FileHistoryEntry", max_entries(config, "File"))
    /\ hist' = Trimmed("File")
    /\ last' = [op |-> "trim_file_history", arg |-> <<>>, ret |-> <<>>]
    /\ UNCHANGED <<config, workload, procs>>

\* push_reg_history with the search register sent to the command file.
push_reg_history_same_file(register, line) ==
    /\ last' = [op |-> "push_reg_history", arg |-> <<register, line>>, ret |-> <<>>]
    /\ UNCHANGED <<config, workload, procs>>
    /\ IF register \in {":", "/"} THEN
            LET filepath == default_file_path(config, "Command") IN
            /\ dirs' = ensure_parent_dir(dirs, filepath)
            /\ fs' = push_history(fs, filepath, "String", line)
            /\ hist' = Pushed(IF register = ":" THEN "Command" ELSE "Search", line)
       ELSE UNCHANGED <<dirs, fs, hist>>

push_reg_history(register, line) ==
    /\ last' = [op |-> "push_reg_history", arg |-> <<register, line>>, ret |-> <<>>]
    /\ UNCHANGED <<config, workload, procs>>
    /\ IF register = ":" THEN
            LET filepath == default_file_path(config, "Command") IN
            /\ dirs' = ensure_parent_dir(dirs, filepath)
            /\ fs' = push_history(fs, filepath, "String", line)
            /\ hist' = Pushed("Command", line)
       ELSE IF register = "/" THEN
            LET filepath == default_file_path(config, "Search") IN
            /\ dirs' = ensure_parent_dir(dirs, filepath)
            /\ fs' = push_history(fs, filepath, "String", line)
            /\ hist' = Pushed("Search", line)
       ELSE UNCHANGED <<dirs, fs, hist>>

read_reg_history(filepath) == read_history(fs, filepath, "String")

\* read_command_history without the reversal.
read_command_history_stored_order ==
    LET path == default_file_path(config, "Command") IN
    /\ dirs' = ensure_parent_dir(dirs, path)
    /\ last' = [op |-> "read_command_history", arg |-> <<>>,
                ret |-> read_reg_history(path)]
    /\ UNCHANGED <<config, workload, procs, fs, hist>>

read_command_history ==
    LET path == default_file_path(config, "Command") IN
    /\ dirs' = ensure_parent_dir(dirs, path)
    /\ last' = [op |-> "read_command_history", arg |-> <<>>,
                ret |-> Reverse(read_reg_history(path))]
    /\ UNCHANGED <<config, workload, procs, fs, hist>>

\* trim_command_history that keeps the first records of the file.
trim_command_history_keeping_oldest ==
    LET path == default_file_path(config, "Command")
        history == read_history(fs, path, "String")
        max == max_entries(config, "Command") IN
    /\ dirs' = ensure_parent_dir(dirs, path)
    /\ fs' = IF Len(history) > max
             THEN write_history(fs, path, "String", SubSeq(history, 1, max))
             ELSE fs
    /\ hist' = Trimmed("Command")
    /\ last' = [op |-> "trim_command_history", arg |-> <<>>, ret |-> <<>>]
    /\ UNCHANGED <<config, workload, procs>>

trim_command_history ==
    LET path == default_file_path(config, "Command") IN
    /\ dirs' = ensure_parent_dir(dirs, path)
    /\ fs' = trim_history(fs, path, "String", max_entries(config, "Command"))
    /\ hist' = Trimmed("Command")
    /\ last' = [op |-> "trim_command_history", arg |-> <<>>, ret |-> <<>>]
    /\ UNCHANGED <<config, workload, procs>>

read_search_history ==
    LET path == default_file_path(config, "Search") IN
    /\ dirs' = ensure_parent_dir(dirs, path)
    /\ last' = [op |-> "read_search_history", arg |-> <<>>,
                ret |-> Reverse(read_reg_history(path))]
    /\ UNCHANGED <<config, workload, procs, fs, hist>>

\* trim_search_history with the cap of the command category.
trim_search_history_command_cap ==
    LET path == default_file_path(config, "Search") IN
    /\ dirs' = ensure_parent_dir(dirs, path)
    /\ fs' = trim_history(fs, path, "String", max_entries(config, "Command"))
    /\ hist' = Trimmed("Search")
    /\ last' = [op |-> "trim_search_history", arg |-> <<>>, ret |-> <<>>]
    /\ UNCHANGED <<config, workload, procs>>

trim_search_history ==
    LET path == default_file_path(config, "Search") IN
    /\ dirs' = ensure_parent_dir(dirs, path)
    /\ fs' = trim_history(fs, path, "String", max_entries(config, "Search"))
    /\ hist' = Trimmed("Search")
    /\ last' = [op |-> "trim_search_history", arg |-> <<>>, ret |-> <<>>]
    /\ UNCHANGED <<config, workload, procs>>

\* write_clipboard_file appending the values to what the file holds.
write_clipboard_file_appending(vals) ==
    LET path == default_file_path(config, "Clipboard") IN
    /\ dirs' = ensure_parent_dir(dirs, path)
    /\ fs' = [fs EXCEPT ![path] = File(@.bytes \o encode_sequence("String", vals))]
    /\ hist' = [hist EXCEPT !.written = Append(@, vals)]
    /\ last' = [op |-> "write_clipboard_file", arg |-> <<vals>>, ret |-> <<>>]
    /\ UNCHANGED <<config, workload, procs>>

write_clipboard_file(vals) ==
    LET path == default_file_path(config, "Clipboard") IN
    /\ dirs' = ensure_parent_dir(dirs, path)
    /\ fs' = write_history(fs, path, "String", vals)
    /\ hist' = [hist EXCEPT !.written = Append(@, vals)]
    /\ last' = [op |-> "write_clipboard_file", arg |-> <<vals>>, ret |-> <<>>]
    /\ UNCHANGED <<config, workload, procs>>

read_clipboard_file ==
    LET path == default_file_path(config, "Clipboard") IN
    /\ dirs' = ensure_parent_dir(dirs, path)
    /\ last' = [op |-> "read_clipboard_file", arg |-> <<>>,
                ret |-> read_history(fs, path, "String")]
    /\ UNCHANGED <<config, workload, procs, fs, hist>>

\* push_split_entry that trims to the cap after the append.
push_split_entry_trimming(entry) ==
    LET path == default_file_path(config, "Splits") IN
    /\ dirs' = ensure_parent_dir(dirs, path)
    /\ fs' = trim_history(push_history(fs, path, "SplitEntry", entry), path,
                          "SplitEntry", max_entries(config, "Splits"))
    /\ hist' = Pushed("Splits", entry)
    /\ last' = [op |-> "push_split_entry", arg |-> <<entry>>, ret |-> <<>>]
    /\ UNCHANGED <<config, workload, procs>>

push_split_entry(entry) ==
    LET path == default_file_path(config, "Splits") IN
    /\ dirs' = ensure_parent_dir(dirs, path)
    /\ fs' = push_history(fs, path, "SplitEntry", entry)
    /\ hist' = Pushed("Splits", entry)
    /\ last' = [op |-> "push_split_entry", arg |-> <<entry>>, ret |-> <<>>]
    /\ UNCHANGED <<config, workload, procs>>

\* read_split_file opening the file with create: a missing file appears.
read_split_file_creating ==
    LET path == default_file_path(config, "Splits") IN
    /\ dirs' = ensure_parent_dir(dirs, path)
    /\ fs' = [fs EXCEPT ![path] = File(@.bytes)]
    /\ last' = [op |-> "read_split_file", arg |-> <<>>,
                ret |-> read_history(fs, path, "SplitEntry")]
    /\ UNCHANGED <<config, workload, procs, hist>>

read_split_file ==
    LET path == default_file_path(config, "Splits") IN
    /\ dirs' = ensure_parent_dir(dirs, path)
    /\ last' = [op |-> "read_split_file", arg |-> <<>>,
                ret |-> read_history(fs, path, "SplitEntry")]
    /\ UNCHANGED <<config, workload, procs, fs, hist>>

\* The HashMap of trim_split_file: a function from the names inserted to the
\* entry last inserted under each name.
insert(splits, entry) ==
    [n \in (DOMAIN splits) \cup {entry.name} |->
        IF n = entry.name THEN entry ELSE splits[n]]

\* The for loop: insert each entry, break when the map holds max names.
RECURSIVE scan_splits(_, _, _)
RECURSIVE scan_next(_, _, _)
\* The loop without its break: every entry of the file is inserted.
scan_next_without_break(splits, entries, max) == scan_splits(splits, entries, max)

scan_next(splits, entries, max) ==
    IF Cardinality(DOMAIN splits) = max THEN splits
    ELSE scan_splits(splits, entries, max)
scan_splits(splits, entries, max) ==
    IF entries = <<>> THEN splits
    ELSE scan_next(insert(splits, Head(entries)), Tail(entries), max)

\* splits.values().collect(): the values in any order.
values(splits) ==
    {order \in [1..Cardinality(DOMAIN splits) -> {splits[n] : n \in DOMAIN splits}] :
        \A i, j \in DOMAIN order : i # j => order[i] # order[j]}

\* trim_split_file without its early return: the file is always rewritten.
trim_splits_always(path, splits_in_file, max) ==
    \E collected \in values(scan_splits(<<>>, splits_in_file, max)) :
        fs' = write_history(fs, path, "SplitEntry", collected)

\* trim_split_file that, at the cap, drops the oldest entry of the file.
trim_splits_dropping_oldest(path, splits_in_file, max) ==
    IF Len(splits_in_file) < max \/ splits_in_file = <<>> THEN fs' = fs
    ELSE fs' = write_history(fs, path, "SplitEntry", Tail(splits_in_file))

trim_splits(path, splits_in_file, max) ==
    IF Len(splits_in_file) < max THEN fs' = fs
    ELSE \E collected \in values(scan_splits(<<>>, splits_in_file, max)) :
            fs' = write_history(fs, path, "SplitEntry", collected)

trim_split_file ==
    LET path == default_file_path(config, "Splits") IN
    /\ dirs' = ensure_parent_dir(dirs, path)
    /\ trim_splits(path, read_history(fs, path, "SplitEntry"),
                   max_entries(config, "Splits"))
    /\ hist' = Trimmed("Splits")
    /\ last' = [op |-> "trim_split_file", arg |-> <<>>, ret |-> <<>>]
    /\ UNCHANGED <<config, workload, procs>>

(***************************************************************************)
(* The session: every operation, pushes bounded by the workload.           *)
(***************************************************************************)
Uses(file) == file \in workload.uses
CanPush(file) == Uses(file) /\ Len(hist.pushed[file]) < workload.max[file]

PushFile == \E entry \in workload.files : CanPush("File") /\ push_file_history(entry)
ReadFile == Uses("File") /\ read_file_history
TrimFile == Uses("File") /\ trim_file_history
PushReg ==
    \E register \in workload.registers, line \in workload.lines :
        /\ register = ":" => CanPush("Command")
        /\ register = "/" => CanPush("Search")
        /\ push_reg_history(register, line)
ReadCommand == Uses("Command") /\ read_command_history
TrimCommand == Uses("Command") /\ trim_command_history
ReadSearch == Uses("Search") /\ read_search_history
TrimSearch == Uses("Search") /\ trim_search_history
WriteClipboard ==
    \E vs \in workload.clips :
        /\ Uses("Clipboard") /\ Len(hist.written) < workload.max["Clipboard"]
        /\ write_clipboard_file(vs)
ReadClipboard == Uses("Clipboard") /\ read_clipboard_file
PushSplit == \E entry \in workload.splits : CanPush("Splits") /\ push_split_entry(entry)
ReadSplit == Uses("Splits") /\ read_split_file
TrimSplit == Uses("Splits") /\ trim_split_file

Next ==
    \/ PushFile \/ ReadFile \/ TrimFile
    \/ PushReg \/ ReadCommand \/ TrimCommand \/ ReadSearch \/ TrimSearch
    \/ WriteClipboard \/ ReadClipboard
    \/ PushSplit \/ ReadSplit \/ TrimSplit

Spec == Init /\ [][Next]_vars

\* The file of a category and its record type.
RecordType(file) ==
    CASE file \in {"Command", "Search", "Clipboard"} -> "String"
      [] file = "File" -> "FileHistoryEntry"
      [] file = "Splits" -> "SplitEntry"
PathOf(file) == default_file_path(config, file)
read_all(f, file) == read_history(f, PathOf(file), RecordType(file))

\* Every file holds a whole number of well-formed records of its type.
WellFormed ==
    \A file \in PersistenceType :
        decode_sequence(RecordType(file), fs[PathOf(file)].bytes).ok

(***************************************************************************)
(* Properties.                                                             *)
(***************************************************************************)
PushCategories == {"Command", "Search", "File", "Splits"}
PlainCategories == {"Command", "Search", "File"}

\* C1: append monotonicity. As long as no trim of a category has run, its
\* file reads back exactly the records pushed to it, each once, in call
\* order (oldest first).
C1_AppendMonotonicity ==
    \A file \in PushCategories :
        ~hist.trimmed[file] => read_all(fs, file) = hist.pushed[file]

\* Four searches pushed and read back, no trim in between.
C1_Witness ==
    /\ ~hist.trimmed["Search"]
    /\ hist.pushed["Search"] = <<s_a, s_1, s_2, s_3>>
    /\ last.op = "read_search_history"
    /\ last.ret = <<s_3, s_2, s_1, s_a>>

TrimOp(file) ==
    CASE file = "Command" -> "trim_command_history"
      [] file = "Search" -> "trim_search_history"
      [] file = "File" -> "trim_file_history"
      [] file = "Splits" -> "trim_split_file"
      [] OTHER -> "none"

ReadOp(file) ==
    CASE file = "Command" -> "read_command_history"
      [] file = "Search" -> "read_search_history"
      [] file = "File" -> "read_file_history"
      [] file = "Clipboard" -> "read_clipboard_file"
      [] file = "Splits" -> "read_split_file"

LastN(s, n) == IF Len(s) <= n THEN s ELSE SubSeq(s, Len(s) - n + 1, Len(s))

\* C2: cap respected for the plain categories. A trim of a plain category
\* with cap N leaves at most N records, and they are the last N records the
\* file held before the trim, in their order.
C2_CapRespected ==
    [][\A file \in PlainCategories :
          last'.op = TrimOp(file) =>
              /\ Len(read_all(fs', file)) <= max_entries(config, file)
              /\ read_all(fs', file) = LastN(read_all(fs, file), max_entries(config, file))]_vars

\* The scenario: cap 3, searches "a", "1", "2", "3", then the trim.
C2_Witness ==
    /\ last.op = "trim_search_history"
    /\ max_entries(config, "Search") = 3
    /\ hist.pushed["Search"] = <<s_a, s_1, s_2, s_3>>
    /\ read_all(fs, "Search") = <<s_1, s_2, s_3>>

Names(entries) == [i \in 1..Len(entries) |-> entries[i].name]

\* The entry of the last push_split_entry with this name.
LastPush(name) ==
    LET pushed == hist.pushed["Splits"]
        at == {i \in 1..Len(pushed) : pushed[i].name = name}
    IN pushed[CHOOSE i \in at : \A j \in at : j <= i]

\* C3: split dedup keeps the latest value of a name. When trim_split_file
\* rewrites the file (the count has reached the cap), every surviving entry
\* is the one of the last push of its name; with cap 2 and pushes named
\* "A", "B", "A", two entries with two distinct names survive.
C3_SplitDedupLatest ==
    [][(/\ last'.op = "trim_split_file"
        /\ max_entries(config, "Splits") >= 1
        /\ Len(read_all(fs, "Splits")) >= max_entries(config, "Splits"))
       =>
       LET after == read_all(fs', "Splits") IN
       /\ \A i \in 1..Len(after) : after[i] = LastPush(after[i].name)
       /\ (/\ max_entries(config, "Splits") = 2
           /\ Names(read_all(fs, "Splits")) = <<n_A, n_B, n_A>>)
          => (Len(after) = 2 /\ Range(Names(after)) = {n_A, n_B})]_vars

\* C4: trim never exceeds the cap, for every category. Right after a trim
\* of a category its file holds at most max_entries records.
C4_TrimWithinCap ==
    \A file \in PushCategories :
        last.op = TrimOp(file) => Len(read_all(fs, file)) <= max_entries(config, file)

\* C5: no-op trim. A trim of a plain category whose file holds at most
\* max_entries records changes no file: the content (and whether the file
\* exists) is the same before and after.
C5_NoOpTrim ==
    [][\A file \in PlainCategories :
          (/\ last'.op = TrimOp(file)
           /\ Len(read_all(fs, file)) <= max_entries(config, file))
          => fs' = fs]_vars

\* A trim of the file history at exactly the cap, nothing ever dropped.
C5_Witness ==
    /\ last.op = "trim_file_history"
    /\ Len(read_all(fs, "File")) = max_entries(config, "File")
    /\ Len(read_all(fs, "File")) >= 2
    /\ read_all(fs, "File") = hist.pushed["File"]

\* C6: recency-first read. read_command_history and read_search_history
\* return the stored records newest first (the reverse of the file order,
\* so of the push order while nothing was trimmed); read_file_history and
\* read_clipboard_file return them in stored order.
C6_RecencyFirstRead ==
    /\ \A file \in {"Command", "Search"} :
          last.op = ReadOp(file) =>
              LET stored == read_all(fs, file) IN
              /\ Len(last.ret) = Len(stored)
              /\ \A i \in 1..Len(stored) : last.ret[i] = stored[Len(stored) + 1 - i]
              /\ ~hist.trimmed[file] =>
                    \A i \in 1..Len(stored) :
                        last.ret[i] = hist.pushed[file][Len(stored) + 1 - i]
    /\ \A file \in {"File", "Clipboard"} :
          last.op = ReadOp(file) => last.ret = read_all(fs, file)

\* The scenario's read after the trim: "3", "2", "1".
C6_Witness ==
    /\ last.op = "read_search_history"
    /\ hist.trimmed["Search"]
    /\ hist.pushed["Search"] = <<s_a, s_1, s_2, s_3>>
    /\ last.ret = <<s_3, s_2, s_1>>

\* C7: missing-file read. A read accessor on a category whose file does not
\* exist returns the empty sequence and changes no file; it returns the
\* same as for a file that exists and is empty.
C7_MissingFileRead ==
    [][\A file \in PersistenceType :
          (last'.op = ReadOp(file) /\ fs[PathOf(file)].bytes = <<>>)
          => (last'.ret = <<>> /\ fs' = fs)]_vars

\* The splits file read while it does not exist.
C7_Witness ==
    /\ last.op = "read_split_file"
    /\ ~fs[PathOf("Splits")].exists
    /\ PathOf("Splits").dir \in dirs
    /\ last.ret = <<>>

\* The category and the record of a push operation.
PushCategory(l) ==
    CASE l.op = "push_file_history" -> "File"
      [] l.op = "push_split_entry" -> "Splits"
      [] l.op = "push_reg_history" /\ l.arg[1] = ":" -> "Command"
      [] l.op = "push_reg_history" /\ l.arg[1] = "/" -> "Search"
      [] OTHER -> "none"
PushRecord(l) == IF l.op = "push_reg_history" THEN l.arg[2] ELSE l.arg[1]

\* C8: push is tail-only and never trims. A push changes its file from S to
\* S followed by the encoded record: the records before stay, in order, and
\* the count may pass max_entries.
C8_PushTailOnly ==
    [][\A file \in PushCategories :
          PushCategory(last') = file =>
              /\ fs'[PathOf(file)].exists
              /\ fs'[PathOf(file)].bytes =
                    fs[PathOf(file)].bytes \o encode(RecordType(file), PushRecord(last'))
              /\ read_all(fs', file) = Append(read_all(fs, file), PushRecord(last'))]_vars

\* A push to a splits file that was already above its cap.
C8_Witness ==
    /\ last.op = "push_split_entry"
    /\ max_entries(config, "Splits") >= 1
    /\ Len(read_all(fs, "Splits")) > max_entries(config, "Splits") + 1
    /\ read_all(fs, "Splits") = hist.pushed["Splits"]

\* The category an operation belongs to ("none": a register without history).
OpCategory(l) ==
    CASE l.op \in {"push_file_history", "read_file_history", "trim_file_history"} -> "File"
      [] l.op \in {"read_command_history", "trim_command_history"} -> "Command"
      [] l.op \in {"read_search_history", "trim_search_history"} -> "Search"
      [] l.op \in {"write_clipboard_file", "read_clipboard_file"} -> "Clipboard"
      [] l.op \in {"push_split_entry", "read_split_file", "trim_split_file"} -> "Splits"
      [] l.op = "push_reg_history" -> PushCategory(l)
      [] OTHER -> "none"

FileNameOf(file) ==
    CASE file = "Command" -> "command_history"
      [] file = "Search" -> "search_history"
      [] file = "File" -> "file_history"
      [] file = "Clipboard" -> "clipboard"
      [] file = "Splits" -> "splits"
      [] OTHER -> "none"

SameScope == \A f1, f2 \in PersistenceType : PathOf(f1).dir = PathOf(f2).dir

\* C9: category independence. With all categories in one scope directory,
\* an operation changes no file but the one named for its category
\* (command_history, search_history, file_history, clipboard, splits);
\* push_reg_history with another register than ':' and '/' changes no file.
C9_CategoryIndependence ==
    [][SameScope =>
          \A p \in Paths :
              p.name # FileNameOf(OpCategory(last')) => fs'[p] = fs[p]]_vars

\* A search pushed while the files of all five categories hold records.
C9_Witness ==
    /\ SameScope
    /\ \A file \in PersistenceType : fs[PathOf(file)].bytes # <<>>
    /\ last.op = "push_reg_history"
    /\ last.arg[1] = "/"

\* C10: the clipboard is persisted as a whole list. After a write the file
\* reads back exactly the list last written, whatever it held before, and
\* read_clipboard_file returns it.
C10_ClipboardWholeList ==
    LET written == IF hist.written = <<>> THEN <<>>
                   ELSE hist.written[Len(hist.written)] IN
    /\ read_all(fs, "Clipboard") = written
    /\ last.op = "read_clipboard_file" => last.ret = written

\* A shorter list written over a longer one, then read.
C10_Witness ==
    /\ last.op = "read_clipboard_file"
    /\ hist.written = <<(<<s_a, s_1>>), (<<s_1>>)>>
    /\ last.ret = <<s_1>>
(***************************************************************************)
(* The record codec on its own: records encoded one by one, each encoding  *)
(* written after the last into the buffer of its type (the bytes of the    *)
(* category's file), and the buffer decoded as a sequence.                 *)
(***************************************************************************)
MaxList == 3

\* Inputs: the empty string, a string that reads as the encoding of the
\* empty string, an entry with an empty path, trees with no child, with an
\* empty leaf, with a node inside a node.
s_prefix == LE(0, U64Width)
CodecLines == {<<>>, s_a, s_prefix}
CodecFiles == {FileHistoryEntry(<<>>, 0, 0), FileHistoryEntry(p_f, 1, 258),
               FileHistoryEntry(p_g, 65536, 255)}
t_nested == Node("Horizontal", <<t_split, Leaf(Some(SplitEntryLeaf(<<>>, 0, 0, FALSE)))>>)
CodecSplits == {SplitEntry(<<>>, t_empty), SplitEntry(n_A, t_split),
                SplitEntry(n_B, Node("Horizontal", <<>>)), SplitEntry(n_A, t_nested)}

CodecWorkloads ==
    {Workload("codec-lines", {"Search"}, Only("Search", MaxList), {}, CodecLines, {}, {}, {}),
     Workload("codec-files", {"File"}, Only("File", MaxList), {}, {}, CodecFiles, {}, {}),
     Workload("codec-splits", {"Splits"}, Only("Splits", MaxList), {}, {}, {}, CodecSplits, {})}

Records(file) ==
    CASE file = "Search" -> workload.lines
      [] file = "File" -> workload.files
      [] file = "Splits" -> workload.splits
      [] OTHER -> {}

CodecInit ==
    /\ workload \in CodecWorkloads
    /\ config = Config(MaxCap, FALSE, Dir(TmpDir), Dir(TmpDir))
    /\ procs = <<>>
    /\ dirs = {}
    /\ fs = [p \in Paths |-> NoFile]
    /\ hist = [pushed |-> [f \in PersistenceType |-> <<>>],
               trimmed |-> [f \in PersistenceType |-> FALSE],
               written |-> <<>>]
    /\ last = [op |-> "init", arg |-> <<>>, ret |-> <<>>]

\* One record encoded on its own and written at the end of the buffer.
encode_record(file, r) ==
    /\ fs' = [fs EXCEPT ![PathOf(file)] = File(@.bytes \o encode(RecordType(file), r))]
    /\ hist' = Pushed(file, r)
    /\ last' = [op |-> "encode", arg |-> <<r>>, ret |-> encode(RecordType(file), r)]
    /\ UNCHANGED <<config, workload, procs, dirs>>

\* The bytes of the record just encoded, decoded as one record.
decode_record(file) ==
    /\ last.op = "encode"
    /\ last' = [op |-> "decode", arg |-> last.arg, ret |-> decode(RecordType(file), last.ret)]
    /\ UNCHANGED <<config, workload, procs, dirs, fs, hist>>

\* The whole buffer decoded as a sequence of records.
decode_buffer(file) ==
    /\ last' = [op |-> "decode_sequence", arg |-> <<fs[PathOf(file)].bytes>>,
                ret |-> decode_sequence(RecordType(file), fs[PathOf(file)].bytes)]
    /\ UNCHANGED <<config, workload, procs, dirs, fs, hist>>

EncodeRecord ==
    \E file \in workload.uses : \E r \in Records(file) :
        CanPush(file) /\ encode_record(file, r)
DecodeRecord == \E file \in workload.uses : decode_record(file)
DecodeBuffer == \E file \in workload.uses : decode_buffer(file)

CodecNext == EncodeRecord \/ DecodeRecord \/ DecodeBuffer

CodecSpec == CodecInit /\ [][CodecNext]_vars

\* C11: codec round trip under concatenation. A record encoded and decoded
\* is the record itself with no byte left over, and the buffer made of the
\* encodings of a list of records, one after the other (the empty list and
\* records with an empty payload included), decodes to exactly that list,
\* consuming the whole buffer.
C11_CodecRoundTrip ==
    /\ last.op = "decode" => last.ret = [ok |-> TRUE, value |-> last.arg[1], rest |-> <<>>]
    /\ last.op = "decode_sequence" =>
          \A file \in workload.uses :
              /\ last.arg[1] = Flatten([i \in 1..Len(hist.pushed[file]) |->
                                    encode(RecordType(file), hist.pushed[file][i])])
              /\ last.ret = [ok |-> TRUE, entries |-> hist.pushed[file]]

\* The empty string, the string that looks like an empty string's encoding
\* and the empty string again, decoded back from one buffer.
C11_Witness ==
    /\ last.op = "decode_sequence"
    /\ hist.pushed["Search"] = <<(<<>>), s_prefix, (<<>>)>>
    /\ Len(last.arg[1]) = 32
    /\ last.ret.entries = <<(<<>>), s_prefix, (<<>>)>>
(***************************************************************************)
(* Two editor processes on one scope directory. Nothing locks the files,   *)
(* so the store calls of a process interleave with the other's at the      *)
(* file operations: a push opens the file in append mode and then writes   *)
(* the record at the end; a trim reads the file and then rewrites it.      *)
(*   procs[p].pc      "idle", "append" (file opened, record not written)   *)
(*                    or "rewrite" (file read, rewrite not done)           *)
(*   procs[p].file    the category of the call                             *)
(*   procs[p].entry   the record the call pushes, if it is a push          *)
(*   procs[p].local   what the call holds in memory to write               *)
(*   procs[p].pushed  the records the process pushed, in call order (the   *)
(*                    pushes are recorded here, per process, not in hist)  *)
(***************************************************************************)
MaxRace == 2

Procs == {1, 2}

Idle(pushed) ==
    [pc |-> "idle", file |-> "none", entry |-> <<>>, local |-> <<>>, pushed |-> pushed]
Appending(file, entry, pushed) ==
    [pc |-> "append", file |-> file, entry |-> <<entry>>, local |-> <<>>, pushed |-> pushed]
Rewriting(file, entry, local, pushed) ==
    [pc |-> "rewrite", file |-> file, entry |-> entry, local |-> local, pushed |-> pushed]

\* Each process pushes records of its own, so that a stored record tells
\* which process pushed it.
RaceLines(p) == IF p = 1 THEN {s_a, s_1} ELSE {s_2}
RaceSplits(p) ==
    IF p = 1 THEN {SplitEntry(n_A, t_empty), SplitEntry(n_B, t_empty)}
    ELSE {SplitEntry(n_C, t_split)}
RaceRecords(p, file) == IF file = "Splits" THEN RaceSplits(p) ELSE RaceLines(p)

RaceWorkloads ==
    {Workload("race-search", {"Search"}, Only("Search", MaxRace), {"/"}, Lines, {}, {}, {}),
     Workload("race-splits", {"Splits"}, Only("Splits", MaxRace), {}, {}, {}, SplitEntries, {})}

RaceConfigs == {Config(m, FALSE, Dir(TmpDir), Dir(TmpDir)) : m \in 1..MaxRace}

RaceInit ==
    /\ workload \in RaceWorkloads
    /\ config \in RaceConfigs
    /\ procs = [p \in Procs |-> Idle(<<>>)]
    /\ dirs = {}
    /\ fs = [p \in Paths |-> NoFile]
    /\ hist = [pushed |-> [f \in PersistenceType |-> <<>>],
               trimmed |-> [f \in PersistenceType |-> FALSE],
               written |-> <<>>]
    /\ last = [op |-> "init", arg |-> <<>>, ret |-> <<>>]

\* push_history, first half: the file is opened in append mode and created
\* when missing.
open_append(f, filepath) == [f EXCEPT ![filepath] = File(@.bytes)]
\* A push by process p up to the open of the file: the path is resolved and
\* the file opened; the record is written by append_entry.
begin_push(p, file, entry) ==
    /\ dirs' = ensure_parent_dir(dirs, default_file_path(config, file))
    /\ fs' = open_append(fs, default_file_path(config, file))
    /\ procs' = [procs EXCEPT ![p] = Appending(file, entry, @.pushed)]

\* A push done as read-all, then a rewrite of the file with the record added.
begin_read_modify_write(p, file, entry) ==
    /\ dirs' = ensure_parent_dir(dirs, default_file_path(config, file))
    /\ fs' = fs
    /\ procs' = [procs EXCEPT ![p] =
                    Rewriting(file, <<entry>>,
                              Append(read_history(fs, default_file_path(config, file),
                                                  RecordType(file)), entry),
                              @.pushed)]

\* push_reg_history that reads the history and rewrites it with the line added.
begin_push_reg_history_rewriting(p, register, line) ==
    /\ last' = [op |-> "push_reg_history", arg |-> <<p>>, ret |-> <<>>]
    /\ UNCHANGED <<config, workload, hist>>
    /\ IF register = ":" THEN begin_read_modify_write(p, "Command", line)
       ELSE IF register = "/" THEN begin_read_modify_write(p, "Search", line)
       ELSE UNCHANGED <<procs, dirs, fs>>

begin_push_reg_history(p, register, line) ==
    /\ last' = [op |-> "push_reg_history", arg |-> <<p>>, ret |-> <<>>]
    /\ UNCHANGED <<config, workload, hist>>
    /\ IF register = ":" THEN begin_push(p, "Command", line)
       ELSE IF register = "/" THEN begin_push(p, "Search", line)
       ELSE UNCHANGED <<procs, dirs, fs>>

begin_push_split_entry(p, entry) ==
    /\ last' = [op |-> "push_split_entry", arg |-> <<p>>, ret |-> <<>>]
    /\ begin_push(p, "Splits", entry)
    /\ UNCHANGED <<config, workload, hist>>

\* push_history, second half: the encoded record goes to the end of the
\* file as it is now.
append_entry(p) ==
    /\ procs[p].pc = "append"
    /\ fs' = push_history(fs, PathOf(procs[p].file), RecordType(procs[p].file),
                          procs[p].entry[1])
    /\ procs' = [procs EXCEPT ![p] = Idle(@.pushed \o @.entry)]
    /\ last' = [op |-> "append", arg |-> <<p>>, ret |-> <<>>]
    /\ UNCHANGED <<config, workload, dirs, hist>>

\* trim_history, first half: read all; with more than limit records, the
\* last limit of them are held to be written, else the call is over.
begin_trim_to(p, file, history, limit) ==
    IF Len(history) > limit
    THEN procs' = [procs EXCEPT ![p] =
                      Rewriting(file, <<>>, Drop(history, Len(history) - limit), @.pushed)]
    ELSE procs' = procs

begin_trim_search_history(p) ==
    /\ dirs' = ensure_parent_dir(dirs, default_file_path(config, "Search"))
    /\ begin_trim_to(p, "Search",
                     read_history(fs, default_file_path(config, "Search"), "String"),
                     max_entries(config, "Search"))
    /\ hist' = Trimmed("Search")
    /\ last' = [op |-> "trim_search_history", arg |-> <<p>>, ret |-> <<>>]
    /\ UNCHANGED <<config, workload, fs>>

\* trim_split_file up to the end of its loop: the file is read, and unless
\* it holds fewer than max entries the map of the scan is held to be written.
begin_trim_splits(p, splits_in_file, max) ==
    IF Len(splits_in_file) < max THEN procs' = procs
    ELSE procs' = [procs EXCEPT ![p] =
                      Rewriting("Splits", <<>>, scan_splits(<<>>, splits_in_file, max),
                                @.pushed)]

begin_trim_split_file(p) ==
    /\ dirs' = ensure_parent_dir(dirs, default_file_path(config, "Splits"))
    /\ begin_trim_splits(p, read_history(fs, default_file_path(config, "Splits"),
                                         "SplitEntry"),
                         max_entries(config, "Splits"))
    /\ hist' = Trimmed("Splits")
    /\ last' = [op |-> "trim_split_file", arg |-> <<p>>, ret |-> <<>>]
    /\ UNCHANGED <<config, workload, fs>>

\* trim_history, second half: the file rewritten in full with the records
\* held since the read.
rewrite_history(p) ==
    /\ procs[p].pc = "rewrite"
    /\ procs[p].file # "Splits"
    /\ fs' = write_history(fs, PathOf(procs[p].file), RecordType(procs[p].file),
                           procs[p].local)
    /\ procs' = [procs EXCEPT ![p] = Idle(@.pushed \o @.entry)]
    /\ last' = [op |-> "rewrite", arg |-> <<p>>, ret |-> <<>>]
    /\ UNCHANGED <<config, workload, dirs, hist>>

\* The rewrite of trim_split_file done from the file as it is at the write.
rewrite_splits_rereading(p) ==
    /\ procs[p].pc = "rewrite"
    /\ procs[p].file = "Splits"
    /\ dirs' = ensure_parent_dir(dirs, default_file_path(config, "Splits"))
    /\ \E collected \in values(scan_splits(<<>>,
                read_history(fs, default_file_path(config, "Splits"), "SplitEntry"),
                max_entries(config, "Splits"))) :
            fs' = write_history(fs, default_file_path(config, "Splits"), "SplitEntry",
                                collected)
    /\ procs' = [procs EXCEPT ![p] = Idle(@.pushed)]
    /\ last' = [op |-> "rewrite", arg |-> <<p>>, ret |-> <<>>]
    /\ UNCHANGED <<config, workload, hist>>

\* trim_split_file, the write_history call: the values of the map, in any
\* order, rewrite the file.
rewrite_splits(p) ==
    /\ procs[p].pc = "rewrite"
    /\ procs[p].file = "Splits"
    /\ dirs' = ensure_parent_dir(dirs, default_file_path(config, "Splits"))
    /\ \E collected \in values(procs[p].local) :
            fs' = write_history(fs, default_file_path(config, "Splits"), "SplitEntry",
                                collected)
    /\ procs' = [procs EXCEPT ![p] = Idle(@.pushed)]
    /\ last' = [op |-> "rewrite", arg |-> <<p>>, ret |-> <<>>]
    /\ UNCHANGED <<config, workload, hist>>

IsIdle(p) == procs[p].pc = "idle"
MayPush(p, file) == IsIdle(p) /\ Uses(file) /\ Len(procs[p].pushed) < workload.max[file]

RacePushReg ==
    \E p \in Procs : \E register \in workload.registers : \E line \in RaceLines(p) :
        /\ register = ":" => MayPush(p, "Command")
        /\ register = "/" => MayPush(p, "Search")
        /\ begin_push_reg_history(p, register, line)
RacePushSplit ==
    \E p \in Procs : \E entry \in RaceSplits(p) :
        MayPush(p, "Splits") /\ begin_push_split_entry(p, entry)
RaceAppend == \E p \in Procs : append_entry(p)
RaceTrimSearch == \E p \in Procs : IsIdle(p) /\ Uses("Search") /\ begin_trim_search_history(p)
RaceTrimSplit == \E p \in Procs : IsIdle(p) /\ Uses("Splits") /\ begin_trim_split_file(p)
RaceRewrite == \E p \in Procs : rewrite_history(p)
RaceRewriteSplits == \E p \in Procs : rewrite_splits(p)

RaceNext ==
    \/ RacePushReg \/ RacePushSplit \/ RaceAppend
    \/ RaceTrimSearch \/ RaceTrimSplit \/ RaceRewrite \/ RaceRewriteSplits

RaceSpec == RaceInit /\ [][RaceNext]_vars
\* The records of a stored sequence that process p pushes.
OwnRecords(stored, p, file) == SelectSeq(stored, LAMBDA r : r \in RaceRecords(p, file))

RECURSIVE SumLen(_, _)
SumLen(ps, f) ==
    IF ps = {} THEN 0
    ELSE LET p == CHOOSE q \in ps : TRUE IN Len(f[p].pushed) + SumLen(ps \ {p}, f)

\* C12: interleaved appends are safe. Two processes pushing to the same
\* file, no trim having run: after every step the file reads back every
\* record the file held before the step at the same place, the records each
\* process has pushed in that process's call order, each exactly once, and
\* nothing else.
C12_InterleavedAppends ==
    [][\A file \in workload.uses :
          ~hist'.trimmed[file] =>
              /\ Len(read_all(fs, file)) <= Len(read_all(fs', file))
              /\ SubSeq(read_all(fs', file), 1, Len(read_all(fs, file))) = read_all(fs, file)
              /\ \A p \in Procs :
                    OwnRecords(read_all(fs', file), p, file) = procs'[p].pushed
              /\ Len(read_all(fs', file)) = SumLen(Procs, procs')]_vars

\* Process 1 writes its second record while process 2, which has opened the
\* file before, has still to write its own second record.
C12_Witness ==
    /\ ~hist.trimmed["Search"]
    /\ last.op = "append" /\ last.arg = <<1>>
    /\ procs[2].pc = "append"
    /\ read_all(fs, "Search") = <<s_a, s_2, s_1>>

\* C13: trim/push race, the last full rewrite wins. A trim reads the file
\* and rewrites it in a later step; after the rewrite by a process the file
\* holds exactly the records that process retained from its read (for the
\* splits, the values of its map, each once, in some order), whatever
\* another process appended or rewrote in between.
C13_LastRewriteWins ==
    [][\A p \in Procs :
          (last'.op = "rewrite" /\ last'.arg = <<p>>) =>
              IF procs[p].file = "Splits"
              THEN /\ Range(read_all(fs', "Splits")) =
                          {procs[p].local[n] : n \in DOMAIN procs[p].local}
                   /\ Len(read_all(fs', "Splits")) = Cardinality(DOMAIN procs[p].local)
              ELSE read_all(fs', procs[p].file) = procs[p].local]_vars

\* Process 1 read the splits file when it held "A" twice (cap 2), process 2
\* then pushed "C", and the rewrite by process 1 left "A" alone: the entry
\* pushed in between is gone.
C13_Witness ==
    /\ workload.name = "race-splits"
    /\ last.op = "rewrite" /\ last.arg = <<1>>
    /\ max_entries(config, "Splits") = 2
    /\ Names(procs[1].pushed) = <<n_A, n_A>>
    /\ procs[2].pushed = <<SplitEntry(n_C, t_split)>>
    /\ Names(read_all(fs, "Splits")) = <<n_A>>
(***************************************************************************)
(* Directory creation that can fail. A directory of FailingDirs cannot be  *)
(* created (its parent refuses); one that exists already needs no          *)
(* creation. An operation whose path resolution fails ends with a store    *)
(* error.                                                                  *)
(***************************************************************************)
FailingDirs == {TmpDir}

\* The outcome of an operation that failed, and the test for it.
StoreError(op, args) == [op |-> op, arg |-> args, ret |-> <<>>, err |-> "create_dir"]
Failed(l) == "err" \in DOMAIN l

\* ensure_parent_dir with its failure: the directories afterwards and
\* whether the creation failed.
try_ensure_parent_dir(ds, path) ==
    IF path.dir \in ds THEN [dirs |-> ds, err |-> FALSE]
    ELSE IF path.dir \in FailingDirs THEN [dirs |-> ds, err |-> TRUE]
    ELSE [dirs |-> ds \cup {path.dir}, err |-> FALSE]

\* default_file_path that goes on as if the directory had been created.
checked_default_file_path_dropping_error(self, file, ds) ==
    [path |-> default_file_path(self, file), dirs |-> ds, err |-> FALSE]

\* default_file_path with its call of ensure_parent_dir: nothing between the
\* call and the return handles a failure, so the failure leaves with it.
checked_default_file_path(self, file, ds) ==
    [path |-> default_file_path(self, file),
     dirs |-> try_ensure_parent_dir(ds, default_file_path(self, file)).dirs,
     err |-> try_ensure_parent_dir(ds, default_file_path(self, file)).err]

\* An operation of a category: the failure of its path resolution is its
\* outcome, and the store is not called; else the operation runs.
fallible(file, op, args, operation) ==
    IF checked_default_file_path(config, file, dirs).err
    THEN /\ last' = StoreError(op, args)
         /\ UNCHANGED <<config, workload, procs, dirs, fs, hist>>
    ELSE operation

FaultConfigs ==
    {Config(m, FALSE, sc, sc) : m \in {1, MaxCap}, sc \in {Dir(TmpDir), AllInOne}}

FaultInit ==
    /\ workload \in {w \in Workloads : w.name \in {"file", "search"}}
    /\ config \in FaultConfigs
    /\ procs = <<>>
    /\ dirs \in {{}, {TmpDir}}
    /\ fs = [p \in Paths |-> NoFile]
    /\ hist = [pushed |-> [f \in PersistenceType |-> <<>>],
               trimmed |-> [f \in PersistenceType |-> FALSE],
               written |-> <<>>]
    /\ last = [op |-> "init", arg |-> <<>>, ret |-> <<>>]

FaultPushFile ==
    \E entry \in workload.files :
        /\ CanPush("File")
        /\ fallible("File", "push_file_history", <<entry>>, push_file_history(entry))
FaultReadFile ==
    Uses("File") /\ fallible("File", "read_file_history", <<>>, read_file_history)
FaultTrimFile ==
    Uses("File") /\ fallible("File", "trim_file_history", <<>>, trim_file_history)
FaultPushReg ==
    \E line \in workload.lines :
        /\ CanPush("Search")
        /\ fallible("Search", "push_reg_history", <<"/", line>>, push_reg_history("/", line))
FaultReadSearch ==
    Uses("Search") /\ fallible("Search", "read_search_history", <<>>, read_search_history)
FaultTrimSearch ==
    Uses("Search") /\ fallible("Search", "trim_search_history", <<>>, trim_search_history)

FaultNext ==
    \/ FaultPushFile \/ FaultReadFile \/ FaultTrimFile
    \/ FaultPushReg \/ FaultReadSearch \/ FaultTrimSearch

FaultSpec == FaultInit /\ [][FaultNext]_vars
Options == {PersistenceConfigOption(TRUE, MaxCap, AllInOne),
            PersistenceConfigOption(FALSE, 1, PerWorkspace)}
OptionTomls == {None} \cup {Some(opt) : opt \in Options}

\* The field of PersistenceConfig that holds the option of a category.
FieldOf(file) ==
    CASE file = "Command" -> "commands"
      [] file = "Search" -> "search"
      [] file = "File" -> "old_files"
      [] file = "Clipboard" -> "clipboard"
      [] file = "Splits" -> "splits"

ConfigInit ==
    /\ config = Config(MaxCap, FALSE, AllInOne, AllInOne)
    /\ workload = Workload("config", {}, Only("none", 0), {}, {}, {}, {}, {})
    /\ procs = <<>>
    /\ dirs = {}
    /\ fs = [p \in Paths |-> NoFile]
    /\ hist = [pushed |-> [f \in PersistenceType |-> <<>>],
               trimmed |-> [f \in PersistenceType |-> FALSE],
               written |-> <<>>]
    /\ last = [op |-> "init", arg |-> <<>>, ret |-> <<>>]

\* The loader: one category's option, or the default, is given a value.
set_option(file, opt) ==
    /\ config' = [config EXCEPT ![FieldOf(file)] = opt]
    /\ last' = [op |-> "set_option", arg |-> <<file>>, ret |-> <<>>]
    /\ UNCHANGED <<workload, procs, dirs, fs, hist>>

set_all(opt) ==
    /\ config' = [config EXCEPT !.all = opt]
    /\ last' = [op |-> "set_all", arg |-> <<>>, ret |-> <<>>]
    /\ UNCHANGED <<workload, procs, dirs, fs, hist>>

\* The accessors, called for a category.
call_enabled(file) ==
    /\ last' = [op |-> "enabled", arg |-> <<file>>, ret |-> enabled(config, file)]
    /\ UNCHANGED <<config, workload, procs, dirs, fs, hist>>

call_max_entries(file) ==
    /\ last' = [op |-> "max_entries", arg |-> <<file>>, ret |-> max_entries(config, file)]
    /\ UNCHANGED <<config, workload, procs, dirs, fs, hist>>

call_scope(file) ==
    /\ last' = [op |-> "scope", arg |-> <<file>>, ret |-> scope(config, file)]
    /\ UNCHANGED <<config, workload, procs, dirs, fs, hist>>

SetOption == \E file \in PersistenceType : \E opt \in OptionTomls : set_option(file, opt)
SetAll == \E opt \in Options : set_all(opt)
CallEnabled == \E file \in PersistenceType : call_enabled(file)
CallMaxEntries == \E file \in PersistenceType : call_max_entries(file)
CallScope == \E file \in PersistenceType : call_scope(file)

ConfigNext == SetOption \/ SetAll \/ CallEnabled \/ CallMaxEntries \/ CallScope

ConfigSpec == ConfigInit /\ [][ConfigNext]_vars

\* The setting in force for a category: its own when set, else the default.
InForce(c, file) == IF c[FieldOf(file)] = None THEN c.all ELSE c[FieldOf(file)][1]
Resolved(c, file) == <<enabled(c, file), max_entries(c, file), scope(c, file)>>

\* C15: two-level configuration resolution. Each accessor returns, for
\* every category and configuration, the field of the category's own
\* option when it is set and of the "all" default when it is not; the three
\* values of a category always come from one and the same setting; and
\* setting the option of one category changes what is resolved for no other.
C15_TwoLevelResolution ==
    [][/\ last'.op = "enabled" => last'.ret = InForce(config', last'.arg[1]).enabled
       /\ last'.op = "max_entries" => last'.ret = InForce(config', last'.arg[1]).max_entries
       /\ last'.op = "scope" => last'.ret = InForce(config', last'.arg[1]).scope
       /\ \A file \in PersistenceType :
             \E opt \in Options \cup {config'.all} :
                 Resolved(config', file) = <<opt.enabled, opt.max_entries, opt.scope>>
       /\ last'.op = "set_option" =>
             \A other \in PersistenceType \ {last'.arg[1]} :
                 Resolved(config', other) = Resolved(config, other)]_vars

\* max_entries of the search category, whose option is set to 1 over a
\* default of MaxCap while the command category before it is left unset.
C15_Witness ==
    /\ last.op = "max_entries" /\ last.arg = <<"Search">>
    /\ config.all = PersistenceConfigOption(TRUE, MaxCap, AllInOne)
    /\ config.commands = None
    /\ config.search = Some(PersistenceConfigOption(FALSE, 1, PerWorkspace))
    /\ last.ret = 1
(***************************************************************************)
(* The split trim, in the single-process session (Spec).                   *)
(***************************************************************************)
\* The place of the last push of a name, and the names that fewer than max
\* other names follow in that order: the max most recently updated names.
LastIndex(pushed, name) ==
    CHOOSE i \in 1..Len(pushed) :
        /\ pushed[i].name = name
        /\ \A j \in (i + 1)..Len(pushed) : pushed[j].name # name
RecentNames(pushed, max) ==
    {n \in Range(Names(pushed)) :
        Cardinality({m \in Range(Names(pushed)) :
                        LastIndex(pushed, m) > LastIndex(pushed, n)}) < max}

\* C16: split trim retains the most recently updated names. After the
\* first trim_split_file of a session (cap at least 1), the names stored
\* are the up to max_entries names whose last push is most recent.
C16_SplitTrimKeepsRecent ==
    [][(/\ last'.op = "trim_split_file"
        /\ ~hist.trimmed["Splits"]
        /\ max_entries(config, "Splits") >= 1)
       => Range(Names(read_all(fs', "Splits"))) =
              RecentNames(hist.pushed["Splits"], max_entries(config, "Splits"))]_vars
\* The scan of trim_split_file, stated on the file content: where it stops
\* (the first entry at which max distinct names have been seen, or the end
\* of the file), and the last entry of each name up to there.
DistinctNames(entries) == Cardinality(Range(Names(entries)))
StopAt(entries, max) ==
    IF \E i \in 1..Len(entries) : DistinctNames(SubSeq(entries, 1, i)) = max
    THEN CHOOSE i \in 1..Len(entries) :
            /\ DistinctNames(SubSeq(entries, 1, i)) = max
            /\ \A j \in 1..(i - 1) : DistinctNames(SubSeq(entries, 1, j)) < max
    ELSE Len(entries)
LastOfEachName(entries) ==
    {entries[LastIndex(entries, n)] : n \in Range(Names(entries))}
Min(a, b) == IF a <= b THEN a ELSE b

\* C17: the early-stop policy of the split trim. With max_entries >= 1 and
\* at least max_entries entries stored, trim_split_file leaves exactly one
\* entry per name seen up to the stopping point, with the value of the
\* name's last occurrence up to there (later entries are dropped, newer
\* values of retained names included); the count is the smaller of
\* max_entries and the number of distinct names stored, all names distinct.
C17_SplitEarlyStop ==
    [][(/\ last'.op = "trim_split_file"
        /\ max_entries(config, "Splits") >= 1
        /\ Len(read_all(fs, "Splits")) >= max_entries(config, "Splits"))
       =>
       /\ Range(read_all(fs', "Splits")) =
              LastOfEachName(SubSeq(read_all(fs, "Splits"), 1,
                                    StopAt(read_all(fs, "Splits"),
                                           max_entries(config, "Splits"))))
       /\ Len(read_all(fs', "Splits")) =
              Min(max_entries(config, "Splits"), DistinctNames(read_all(fs, "Splits")))
       /\ DistinctNames(read_all(fs', "Splits")) = Len(read_all(fs', "Splits"))]_vars

\* Cap 2 and pushes "A", "B", "A": the scan stopped at "B", and the second
\* value of "A" is gone.
C17_Witness ==
    /\ last.op = "trim_split_file"
    /\ max_entries(config, "Splits") = 2
    /\ hist.pushed["Splits"] =
          <<SplitEntry(n_A, t_empty), SplitEntry(n_B, t_empty), SplitEntry(n_A, t_split)>>
    /\ Range(read_all(fs, "Splits")) = {SplitEntry(n_A, t_empty), SplitEntry(n_B, t_empty)}

\* C18: the split trim below the cap does nothing. With fewer entries
\* stored than max_entries, trim_split_file changes no file, so entries
\* with the same name stay and read back in the same order; and
\* push_split_entry appends its entry whatever names are stored.
C18_SplitTrimBelowCap ==
    [][/\ (/\ last'.op = "trim_split_file"
           /\ Len(read_all(fs, "Splits")) < max_entries(config, "Splits"))
          => (fs' = fs /\ read_all(fs', "Splits") = read_all(fs, "Splits"))
       /\ last'.op = "push_split_entry"
          => read_all(fs', "Splits") = Append(read_all(fs, "Splits"), last'.arg[1])]_vars

\* Two entries named "A" under a cap of 3, still both there after a trim.
C18_Witness ==
    /\ last.op = "trim_split_file"
    /\ max_entries(config, "Splits") = 3
    /\ read_all(fs, "Splits") = <<SplitEntry(n_A, t_empty), SplitEntry(n_A, t_split)>>
IsSuffix(s, t) ==
    /\ Len(s) <= Len(t)
    /\ s = SubSeq(t, Len(t) - Len(s) + 1, Len(t))
DroppedCount(f, h, file) == Len(h.pushed[file]) - Len(read_all(f, file))

\* C19: the stored content of a plain category is a contiguous suffix of
\* its push history. Every step that changes the file of a plain category
\* or pushes to it leaves the file reading back as the last records pushed
\* to it, in push order; the number of records dropped from the front does
\* not go down (no dropped record comes back, no newer record goes while an
\* older one stays), and it goes up only in a trim of that category. (A
\* step that changes neither keeps what the file and its history were, and
\* both start empty.)
C19_ContiguousSuffix ==
    [][\A file \in PlainCategories :
          (\/ fs'[PathOf(file)] # fs[PathOf(file)]
           \/ hist'.pushed[file] # hist.pushed[file])
          => /\ IsSuffix(read_all(fs', file), hist'.pushed[file])
             /\ DroppedCount(fs', hist', file) >= DroppedCount(fs, hist, file)
             /\ DroppedCount(fs', hist', file) > DroppedCount(fs, hist, file)
                => last'.op = TrimOp(file)]_vars

\* Cap 1: two searches, a trim, a third search, a trim, a fourth search.
\* The two oldest records are gone and the two newest are stored in order.
C19_Witness ==
    /\ last.op = "push_reg_history"
    /\ max_entries(config, "Search") = 1
    /\ hist.pushed["Search"] = <<s_a, s_1, s_2, s_3>>
    /\ read_all(fs, "Search") = <<s_2, s_3>>

\* C20: the split trim is idempotent on the retained set. A trim_split_file
\* that directly follows a trim_split_file leaves the same set of
\* (name, tree) entries, and as many of them: it drops no entry and changes
\* no value.
C20_SplitTrimIdempotent ==
    [][(last.op = "trim_split_file" /\ last'.op = "trim_split_file")
       => /\ Range(read_all(fs', "Splits")) = Range(read_all(fs, "Splits"))
          /\ Len(read_all(fs', "Splits")) = Len(read_all(fs, "Splits"))]_vars

\* After a trim that dropped an entry, with the file still at the cap, so
\* that the next trim scans and rewrites it again.
C20_Witness ==
    /\ last.op = "trim_split_file"
    /\ max_entries(config, "Splits") = 2
    /\ Len(hist.pushed["Splits"]) = 3
    /\ Len(read_all(fs, "Splits")) = 2

====
